---- MODULE Spec2Model ----
(***************************************************************************)
(* Model of the traefik User-Agent allow-list middleware.                  *)
(*                                                                         *)
(* The repository holds three revisions of the plugin source:              *)
(*   bu   : src/block_useragents.go      (explicit regexes only)           *)
(*   main : src/main.go                  (regex, or regex generated from   *)
(*                                        the version)                     *)
(*   mk   : src/Makefile, lines 22-217   (regex compiled per request, or   *)
(*                                        numeric version comparison)      *)
(* Every revision is modelled; the variable `variant` says which one a     *)
(* behaviour runs.  Strings are sequences of one-character strings.        *)
(***************************************************************************)
EXTENDS Integers, Sequences, FiniteSets, TLC

(***************************************************************************)
(* Strings and the part of Go's regexp package the plugin uses.            *)
(* Supported syntax: literal characters, `.`, `\d`, `\<punctuation>`,      *)
(* character classes with digit ranges, groups, and the postfix operators  *)
(* `*`, `+`, `?`.  Patterns of the model stay inside this subset.          *)
(***************************************************************************)
Digits == <<"0", "1", "2", "3", "4", "5", "6", "7", "8", "9">>

DigitSet == {Digits[k] : k \in 1..10}

DigitVal(c) == (CHOOSE k \in 1..10 : Digits[k] = c) - 1

\* The characters regexp.QuoteMeta escapes.
SpecialChars == {"\\", ".", "+", "*", "?", "(", ")", "|", "[", "]", "{", "}", "^", "$"}

\* Punctuation that may follow a backslash as an escaped literal.
Punct == SpecialChars \cup {"/", "-", " ", ">", "_", ";", ":", ","}

NoNode == [t |-> "none"]

ParseErr(i) == [err |-> TRUE, node |-> NoNode, next |-> i]

ParseOk(n, i) == [err |-> FALSE, node |-> n, next |-> i]

SetNode(cs) == [t |-> "set", cs |-> cs]

RECURSIVE ParseClass(_, _, _)
\* p[i] is the first unread character of a class whose `[` was read.
ParseClass(p, i, cs) ==
    IF i > Len(p) THEN ParseErr(i)                     \* missing closing ]
    ELSE IF p[i] = "]" /\ cs # {} THEN ParseOk(SetNode(cs), i + 1)
    ELSE IF p[i] = "\\" THEN
        IF i + 1 > Len(p) THEN ParseErr(i)             \* trailing backslash
        ELSE IF p[i + 1] = "d" THEN ParseClass(p, i + 2, cs \cup DigitSet)
        ELSE IF p[i + 1] \in Punct THEN ParseClass(p, i + 2, cs \cup {p[i + 1]})
        ELSE ParseErr(i)                               \* invalid escape
    ELSE IF i + 2 <= Len(p) /\ p[i + 1] = "-" /\ p[i + 2] # "]" THEN
        IF /\ p[i] \in DigitSet
           /\ p[i + 2] \in DigitSet
           /\ DigitVal(p[i]) <= DigitVal(p[i + 2])
        THEN ParseClass(p, i + 3,
                 cs \cup {d \in DigitSet :
                             /\ DigitVal(p[i]) <= DigitVal(d)
                             /\ DigitVal(d) <= DigitVal(p[i + 2])})
        ELSE ParseErr(i)                               \* invalid range
    ELSE ParseClass(p, i + 1, cs \cup {p[i]})

RECURSIVE ParseSeq(_, _, _)
\* The group whose body r was read after the `(` at p[i].
GroupOf(p, i, r) ==
    IF r.err THEN r
    ELSE IF r.next > Len(p) THEN ParseErr(i)           \* missing closing )
    ELSE ParseOk([t |-> "grp", items |-> r.node], r.next + 1)

\* What a backslash at p[i] stands for.
EscapeAt(p, i) ==
    IF i + 1 > Len(p) THEN ParseErr(i)                 \* trailing backslash
    ELSE IF p[i + 1] = "d" THEN ParseOk(SetNode(DigitSet), i + 2)
    ELSE IF p[i + 1] \in Punct THEN ParseOk(SetNode({p[i + 1]}), i + 2)
    ELSE ParseErr(i)                                   \* invalid escape

\* One atom starting at p[i], without its repetition operator.
ParseAtom(p, i) ==
    IF p[i] = "(" THEN GroupOf(p, i, ParseSeq(p, i + 1, <<>>))
    ELSE IF p[i] = "[" THEN ParseClass(p, i + 1, {})
    ELSE IF p[i] \in {"*", "+", "?"} THEN ParseErr(i)  \* missing argument
    ELSE IF p[i] = "\\" THEN EscapeAt(p, i)
    ELSE IF p[i] = "." THEN ParseOk([t |-> "any"], i + 1)
    ELSE ParseOk(SetNode({p[i]}), i + 1)

\* The atom a with the repetition operator that follows it in p, if any.
Repetition(p, a) ==
    IF a.err \/ a.next > Len(p) THEN a
    ELSE IF p[a.next] = "*" THEN ParseOk([t |-> "star", n |-> a.node], a.next + 1)
    ELSE IF p[a.next] = "+" THEN ParseOk([t |-> "plus", n |-> a.node], a.next + 1)
    ELSE IF p[a.next] = "?" THEN ParseOk([t |-> "opt", n |-> a.node], a.next + 1)
    ELSE a

\* The concatenation acc continued after the item it.
ParseSeqAfter(p, acc, it) ==
    IF it.err THEN it ELSE ParseSeq(p, it.next, Append(acc, it.node))

\* A concatenation: reads items up to the end of p or an unmatched `)`.
ParseSeq(p, i, acc) ==
    IF i > Len(p) \/ p[i] = ")" THEN ParseOk(acc, i)
    ELSE ParseSeqAfter(p, acc, Repetition(p, ParseAtom(p, i)))

NoRe == [t |-> "none"]

\* The result of Compile from the parse r of the whole of p.
Compiled(p, r) ==
    IF r.err \/ r.next <= Len(p)                       \* r.next <= Len: unexpected )
    THEN [err |-> TRUE, re |-> NoRe]
    ELSE [err |-> FALSE, re |-> [t |-> "grp", items |-> r.node]]

\* regexp.Compile: a compiled expression, or an error.
Compile(p) == Compiled(p, ParseSeq(p, 1, <<>>))

RECURSIVE Ends(_, _, _)
RECURSIVE SeqEnds(_, _, _)
RECURSIVE StarEnds(_, _, _)
RECURSIVE StarGrow(_, _, _, _)
\* The positions right after a match of node n that starts at a position of P.
Ends(n, s, P) ==
    CASE n.t = "set"  -> {k + 1 : k \in {j \in P : j <= Len(s) /\ s[j] \in n.cs}}
      [] n.t = "any"  -> {k + 1 : k \in {j \in P : j <= Len(s)}}
      [] n.t = "grp"  -> SeqEnds(n.items, s, P)
      [] n.t = "star" -> StarEnds(n.n, s, P)
      [] n.t = "plus" -> StarEnds(n.n, s, Ends(n.n, s, P))
      [] n.t = "opt"  -> P \cup Ends(n.n, s, P)

SeqEnds(items, s, P) ==
    IF items = <<>> THEN P
    ELSE SeqEnds(Tail(items), s, Ends(Head(items), s, P))

StarGrow(n, s, P, Q) == IF Q = P THEN P ELSE StarEnds(n, s, Q)

StarEnds(n, s, P) == StarGrow(n, s, P, P \cup Ends(n, s, P))

\* (*Regexp).MatchString: an unanchored search.
MatchString(re, s) == Ends(re, s, 1..(Len(s) + 1)) # {}

SetMin(S) == CHOOSE x \in S : \A y \in S : x <= y

SetMax(S) == CHOOSE x \in S : \A y \in S : y <= x

\* Where the last item of re, its capturing group, starts in the match of re
\* that runs from b0 to e.
GroupStart(re, s, b0, e) ==
    SetMin({k \in SeqEnds(SubSeq(re.items, 1, Len(re.items) - 1), s, {b0}) :
               e \in Ends(re.items[Len(re.items)], s, {k})})

SubmatchSpan(re, s, b0, e) ==
    <<SubSeq(s, b0, e - 1), SubSeq(s, GroupStart(re, s, b0, e), e - 1)>>

SubmatchFrom(re, s, starts) ==
    IF starts = {} THEN <<>>
    ELSE SubmatchSpan(re, s, SetMin(starts), SetMax(Ends(re, s, {SetMin(starts)})))

\* (*Regexp).FindStringSubmatch for an expression whose last item is its only
\* capturing group: the leftmost match, the group taking the longest text.
\* Returns <<whole, group>>, or <<>> when nothing matches.
FindStringSubmatch(re, s) ==
    SubmatchFrom(re, s, {k \in 1..(Len(s) + 1) : Ends(re, s, {k}) # {}})

RECURSIVE QuoteMeta(_)
\* regexp.QuoteMeta: a backslash before every special character.
QuoteMeta(s) ==
    IF s = <<>> THEN <<>>
    ELSE (IF Head(s) \in SpecialChars THEN <<"\\", Head(s)>> ELSE <<Head(s)>>)
             \o QuoteMeta(Tail(s))

\* strings.HasPrefix / strings.TrimPrefix
HasPrefix(s, pre) == Len(s) >= Len(pre) /\ SubSeq(s, 1, Len(pre)) = pre

TrimPrefix(s, pre) == IF HasPrefix(s, pre) THEN SubSeq(s, Len(pre) + 1, Len(s)) ELSE s

RECURSIVE SplitFrom(_, _, _, _)
SplitFrom(s, sep, i, cur) ==
    IF i > Len(s) THEN <<cur>>
    ELSE IF s[i] = sep THEN <<cur>> \o SplitFrom(s, sep, i + 1, <<>>)
    ELSE SplitFrom(s, sep, i + 1, Append(cur, s[i]))

\* strings.Split on a one-character separator: always at least one part.
Split(s, sep) == SplitFrom(s, sep, 1, <<>>)

RECURSIVE DigitsValue(_, _)
DigitsValue(s, acc) ==
    IF s = <<>> THEN acc ELSE DigitsValue(Tail(s), acc * 10 + DigitVal(Head(s)))

\* strconv.Atoi on the texts the model produces (digits and dots only, far
\* shorter than the 19 digits at which Atoi reports a range error).
Atoi(s) ==
    IF s = <<>> \/ \E k \in 1..Len(s) : s[k] \notin DigitSet
    THEN [err |-> TRUE, val |-> 0]
    ELSE [err |-> FALSE, val |-> DigitsValue(s, 0)]

(***************************************************************************)
(* Configuration, errors and construction.                                 *)
(***************************************************************************)
\* type BrowserConfig struct { Name, Regex, Version string }
BrowserConfig(name, regex, version) == [Name |-> name, Regex |-> regex, Version |-> version]

\* type Config struct { AllowedBrowsers []BrowserConfig; AllowedOSTypes []string }
Config(browsers, ostypes) == [AllowedBrowsers |-> browsers, AllowedOSTypes |-> ostypes]

NoError == [kind |-> "nil", name |-> <<>>]

Errorf(kind, name) == [kind |-> kind, name |-> name]

NoFilter == [kind |-> "nil"]

NewResult(b, err) == [b |-> b, err |-> err]

\* ---- src/block_useragents.go ----

RECURSIVE FirstWithoutRegex(_, _)
\* The range loop of ValidateConfig: the first rule whose Regex is empty, or 0.
FirstWithoutRegex(bcs, k) ==
    IF k > Len(bcs) THEN 0
    ELSE IF bcs[k].Regex = <<>> THEN k
    ELSE FirstWithoutRegex(bcs, k + 1)

RegexRequired(bcs, k) ==
    IF k # 0 THEN Errorf("regex must be provided for browser", bcs[k].Name)
    ELSE NoError

ValidateConfig_bu(config) ==
    IF Len(config.AllowedBrowsers) = 0
    THEN Errorf("at least one allowed browser must be specified", <<>>)
    ELSE RegexRequired(config.AllowedBrowsers,
                       FirstWithoutRegex(config.AllowedBrowsers, 1))

LoopResult(err, res) == [err |-> err, res |-> res]

RECURSIVE CompileBrowsers_bu(_, _, _)
\* re, err := regexp.Compile(bc.Regex) and what the loop does with it.
CompiledBrowser_bu(bcs, k, acc, c) ==
    IF c.err
    THEN LoopResult(Errorf("error compiling browser regex", bcs[k].Name), <<>>)
    ELSE CompileBrowsers_bu(bcs, k + 1, Append(acc, c.re))

\* The browser loop of New: the compiled expressions, or the first error.
CompileBrowsers_bu(bcs, k, acc) ==
    IF k > Len(bcs) THEN LoopResult(NoError, acc)
    ELSE IF bcs[k].Regex = <<>> THEN CompileBrowsers_bu(bcs, k + 1, acc)
    ELSE CompiledBrowser_bu(bcs, k, acc, Compile(bcs[k].Regex))

RECURSIVE CompileOS(_, _, _)
CompiledOS(pats, k, acc, c) ==
    IF c.err
    THEN LoopResult(Errorf("error compiling OS regex", pats[k]), <<>>)
    ELSE CompileOS(pats, k + 1, Append(acc, c.re))

\* The OS loop of New, the same in the three revisions.
CompileOS(pats, k, acc) ==
    IF k > Len(pats) THEN LoopResult(NoError, acc)
    ELSE CompiledOS(pats, k, acc, Compile(pats[k]))

\* The end of New: the first error of the two loops, or the filter.
NewCompiled(kind, br, os) ==
    IF br.err # NoError THEN NewResult(NoFilter, br.err)
    ELSE IF os.err # NoError THEN NewResult(NoFilter, os.err)
    ELSE NewResult([kind |-> kind,
                    regexpsAllow |-> br.res,
                    osRegexpsAllow |-> os.res], NoError)

NewValidated_bu(config, verr) ==
    IF verr # NoError THEN NewResult(NoFilter, verr)
    ELSE NewCompiled("bu",
                     CompileBrowsers_bu(config.AllowedBrowsers, 1, <<>>),
                     CompileOS(config.AllowedOSTypes, 1, <<>>))

New_bu(config) == NewValidated_bu(config, ValidateConfig_bu(config))

\* ---- src/main.go ----

\* fmt.Sprintf(`%s/%s(\.\d+)*`, QuoteMeta(browser), QuoteMeta(TrimPrefix(version, ">")))
buildRegexPattern(browser, version) ==
    QuoteMeta(browser) \o <<"/">> \o QuoteMeta(TrimPrefix(version, <<">">>))
        \o <<"(", "\\", ".", "\\", "d", "+", ")", "*">>

\* The pattern New compiles for a rule that has a regex or a version.
PatternOf(bc) ==
    IF bc.Regex # <<>> THEN bc.Regex ELSE buildRegexPattern(bc.Name, bc.Version)

RECURSIVE CompileBrowsers_main(_, _, _)
CompiledBrowser_main(bcs, k, acc, c) ==
    IF c.err
    THEN LoopResult(Errorf("error compiling browser regex", bcs[k].Name), <<>>)
    ELSE CompileBrowsers_main(bcs, k + 1, Append(acc, c.re))

CompileBrowsers_main(bcs, k, acc) ==
    IF k > Len(bcs) THEN LoopResult(NoError, acc)
    ELSE IF bcs[k].Regex = <<>> /\ bcs[k].Version = <<>>
    THEN CompileBrowsers_main(bcs, k + 1, acc)                        \* continue
    ELSE CompiledBrowser_main(bcs, k, acc, Compile(PatternOf(bcs[k])))

New_main(config) ==
    NewCompiled("main",
                CompileBrowsers_main(config.AllowedBrowsers, 1, <<>>),
                CompileOS(config.AllowedOSTypes, 1, <<>>))

\* ---- src/Makefile (Go source, lines 22-217) ----

ValidateConfig_mk(config) ==
    IF Len(config.AllowedBrowsers) = 0
    THEN Errorf("at least one allowed browser must be specified", <<>>)
    ELSE NoError

\* allowedBrowsers: config.AllowedBrowsers copies the slice header only: the
\* filter keeps the length and shares the elements with the caller's Config.
NewCompiled_mk(config, os) ==
    IF os.err # NoError THEN NewResult(NoFilter, os.err)
    ELSE NewResult([kind |-> "mk",
                    allowedBrowsers |-> [len |-> Len(config.AllowedBrowsers)],
                    osRegexpsAllow |-> os.res], NoError)

NewValidated_mk(config, verr) ==
    IF verr # NoError THEN NewResult(NoFilter, verr)
    ELSE NewCompiled_mk(config, CompileOS(config.AllowedOSTypes, 1, <<>>))

New_mk(config) == NewValidated_mk(config, ValidateConfig_mk(config))

\* if len(matches) > 1 { return matches[1], true }; return "", false
Extracted(matches) ==
    IF Len(matches) > 1 THEN <<matches[2], TRUE>> ELSE <<<<>>, FALSE>>

\* extractBrowserVersion: <<version, found>>
extractBrowserVersion(userAgent, browser) ==
    Extracted(FindStringSubmatch(
        Compile(QuoteMeta(browser) \o <<"/", "(", "[", "\\", "d", ".", "]", "+", ")">>).re,
        userAgent))

RECURSIVE PadZeros(_, _)
\* for len(parts) < n { parts = append(parts, "0") }
PadZeros(parts, n) == IF Len(parts) < n THEN PadZeros(Append(parts, <<"0">>), n) ELSE parts

RECURSIVE CompareParts(_, _, _)
\* One pass of the comparison loop of versionGreaterThan.
CompareAt(parts1, parts2, k, p1, p2) ==
    IF p1.err \/ p2.err THEN FALSE                     \* invalid version parts
    ELSE IF p1.val > p2.val THEN TRUE
    ELSE IF p1.val < p2.val THEN FALSE
    ELSE CompareParts(parts1, parts2, k + 1)

\* The comparison loop of versionGreaterThan from index k.
CompareParts(parts1, parts2, k) ==
    IF k > Len(parts1) THEN FALSE                      \* versions are equal
    ELSE CompareAt(parts1, parts2, k, Atoi(parts1[k]), Atoi(parts2[k]))

\* The two padding loops bring both lists to the length of the longer one.
ComparePadded(s1, s2) ==
    CompareParts(PadZeros(s1, Len(s2)), PadZeros(s2, Len(s1)), 1)

versionGreaterThan(v1, v2) == ComparePadded(Split(v1, "."), Split(v2, "."))

(***************************************************************************)
(* Inputs of the model: browser rules, OS patterns and User-Agent values.  *)
(***************************************************************************)
MaxBrowsers == 2

MaxOSTypes == 2

\* How many times the host writes to a Config after New has returned.
MaxMutations == 1

\* The ServeHTTP calls of a behaviour, which may overlap.  Slot 1 carries any
\* request to filter 1; slot 2 carries the same request again, to either
\* filter: what is compared between two calls is their outcome for one
\* User-Agent, on one filter or on a filter and its reordered twin.
Slots == {1, 2}

\* Two filter instances: the second is built from the first one's rules with
\* the OS patterns in any order.
Filters == {1, 2}

Variants == {"bu", "main", "mk"}

ChromeRegexRule == BrowserConfig(<<"C", "h", "r", "o", "m", "e">>, <<"C", "h", "r", "o", "m", "e", "/", "1", "2", "[", "0", "-", "1", "]", ".", "*">>, <<>>)

FirefoxRegexRule == BrowserConfig(<<"F", "i", "r", "e", "f", "o", "x">>, <<"F", "i", "r", "e", "f", "o", "x", "/", "1", "2", "[", "2", "-", "3", "]">>, <<">", "1", "2", "2">>)

FirefoxGreaterRule == BrowserConfig(<<"F", "i", "r", "e", "f", "o", "x">>, <<>>, <<">", "1", "2", "2">>)

FirefoxExactRule == BrowserConfig(<<"F", "i", "r", "e", "f", "o", "x">>, <<>>, <<"1", "2", "1">>)

BadRegexRule == BrowserConfig(<<"B", "a", "d">>, <<"(">>, <<>>)

InertRule == BrowserConfig(<<"I", "n", "e", "r", "t">>, <<>>, <<>>)

BrowserRules ==
    {ChromeRegexRule, FirefoxRegexRule, FirefoxGreaterRule, FirefoxExactRule,
     BadRegexRule, InertRule}

OSAndroid == <<"A", "n", "d", "r", "o", "i", "d">>

OSLinux == <<"L", "i", "n", "u", "x">>

OSBad == <<"[">>

OSPatterns == {OSAndroid, OSLinux, OSBad}

UAEmpty == <<>>

UAFirefox123 == <<"F", "i", "r", "e", "f", "o", "x", "/", "1", "2", "3", ".", "0", " ", "A", "n", "d", "r", "o", "i", "d">>

UAFirefox122 == <<"F", "i", "r", "e", "f", "o", "x", "/", "1", "2", "2", ".", "0", " ", "L", "i", "n", "u", "x">>

UAFirefox1215 == <<"F", "i", "r", "e", "f", "o", "x", "/", "1", "2", "1", ".", "5", ".", "2">>

UAChrome120 == <<"C", "h", "r", "o", "m", "e", "/", "1", "2", "0", ".", "0", " ", "A", "n", "d", "r", "o", "i", "d">>

UACurl == <<"c", "u", "r", "l", "/", "8">>

UserAgents == {UAEmpty, UAFirefox123, UAFirefox122, UAFirefox1215, UAChrome120, UACurl}

\* A *http.Request: nil, or a request of which the User-Agent matters, and
\* whether json.Marshal returns an error for its BlockUserAgentsMessage.
\* encoding/json is not part of the repository; logBlockedRequest handles
\* both results of the call, and so the requests come with both.
NilRequest == [nil |-> TRUE, ua |-> <<>>, marshalErr |-> FALSE]

Request(ua) == [nil |-> FALSE, ua |-> ua, marshalErr |-> FALSE]

UnencodableRequest(ua) == [nil |-> FALSE, ua |-> ua, marshalErr |-> TRUE]

\* The User-Agent values of the requests whose message json.Marshal refuses:
\* one without a User-Agent, one that browser rules and OS patterns can
\* each accept or reject.
UnencodableUserAgents == {UAEmpty, UAChrome120}

Requests ==
    {NilRequest} \cup {Request(ua) : ua \in UserAgents}
                 \cup {UnencodableRequest(ua) : ua \in UnencodableUserAgents}

SeqsUpTo(S, n) == UNION {[1..k -> S] : k \in 0..n}

Configs ==
    {Config(bs, os) : bs \in SeqsUpTo(BrowserRules, MaxBrowsers),
                      os \in SeqsUpTo(OSPatterns, MaxOSTypes)}

\* The lists that hold the elements of s in some order.
Reorderings(s) ==
    {[k \in 1..Len(s) |-> s[pi[k]]] : pi \in Permutations(1..Len(s))}

(***************************************************************************)
(* State.                                                                  *)
(*   variant : the revision of the source the behaviour runs               *)
(*   config  : the Config value the host passes to New, per filter         *)
(*   heap    : per filter, the backing array of the AllowedBrowsers slice  *)
(*             its Config had when New was called, and whether the Config  *)
(*             still points at that array                                  *)
(*   filters : what New returned, per filter (handler and error)           *)
(*   req     : per slot, one ServeHTTP call: its position, its locals and  *)
(*             what the response writer, the next handler and the log saw  *)
(***************************************************************************)
VARIABLES variant, config, heap, filters, req

vars == <<variant, config, heap, filters, req>>

NotBuilt == NewResult(NoFilter, Errorf("New not called", <<>>))

Built(f) == filters[f].err = NoError

\* New of the revision v.
New(v, cfg) ==
    CASE v = "bu"   -> New_bu(cfg)
      [] v = "main" -> New_main(cfg)
      [] v = "mk"   -> New_mk(cfg)

StatusBadRequest == 400

StatusForbidden == 403

IdleCall ==
    [pc |-> "idle", f |-> 0, nil |-> FALSE, ua |-> <<>>, marshalErr |-> FALSE,
     i |-> 1, browserMatch |-> FALSE, j |-> 1, osMatch |-> FALSE,
     iterations |-> 0, status |-> <<>>, nextCalls |-> 0, log |-> <<>>]

\* The request a call was made with.
RequestOf(rq) == [nil |-> rq.nil, ua |-> rq.ua, marshalErr |-> rq.marshalErr]

\* A line of the log: what it says, and what the response writer had been
\* given when it was emitted.
LogLine(kind, reason, ua, format, written) ==
    [kind |-> kind, reason |-> reason, ua |-> ua, format |-> format, written |-> written]

\* logBlockedRequest: one log.Printf, with the JSON message if json.Marshal
\* returned no error and with req.UserAgent() if it did.
logBlockedRequest(rq, reason) ==
    [rq EXCEPT !.log = Append(@, LogLine("Blocked", reason, rq.ua,
                                         IF rq.marshalErr THEN "text" ELSE "json",
                                         rq.status))]

\* The status written first, the line logged after it.
Reject_statusFirst(rq, reason) ==
    [logBlockedRequest([rq EXCEPT !.status = Append(@, StatusForbidden)], reason)
        EXCEPT !.pc = "done"]

\* logBlockedRequest(req, reason); res.WriteHeader(http.StatusForbidden); return
Reject(rq, reason) ==
    [logBlockedRequest(rq, reason) EXCEPT !.status = Append(@, StatusForbidden),
                                          !.pc = "done"]

\* A nil request answered like a policy rejection.
BadRequest_forbidden(rq) ==
    [rq EXCEPT !.status = Append(@, StatusForbidden), !.pc = "done"]

\* res.WriteHeader(http.StatusBadRequest); return
BadRequest(rq) == [rq EXCEPT !.status = Append(@, StatusBadRequest), !.pc = "done"]

\* b.next.ServeHTTP(res, req)
Forward(rq) == [rq EXCEPT !.nextCalls = @ + 1, !.pc = "done"]

\* if req == nil
IsNil(rv) == rv.nil

\* The User-Agent check left out.
EmptyUserAgent_never(ua) == FALSE

\* if userAgent == ""
EmptyUserAgent(ua) == ua = <<>>

\* The elements the filter of the Makefile revision ranges over: the slice
\* header New copied (same array, the length of that time).
allowedBrowsers(f) ==
    SubSeq(heap[f].array, 1, filters[f].b.allowedBrowsers.len)

BrowserCount(f) ==
    IF filters[f].b.kind = "mk" THEN filters[f].b.allowedBrowsers.len
    ELSE Len(filters[f].b.regexpsAllow)

Iteration(match, log) == [match |-> match, log |-> log]

\* One pass of the browser loop, per revision: does element k accept ua, and
\* what the pass logs.
BrowserIteration_bu(f, k, ua) ==
    Iteration(MatchString(filters[f].b.regexpsAllow[k], ua), <<>>)

BrowserIteration_main(f, k, ua) ==
    Iteration(MatchString(filters[f].b.regexpsAllow[k], ua), <<>>)

RegexIteration_mk(bc, ua, c) ==
    IF c.err
    THEN Iteration(FALSE, <<LogLine("Invalid regex", bc.Name, ua, "text", <<>>)>>)
    ELSE Iteration(MatchString(c.re, ua), <<>>)

VersionIteration_mk(threshold, ev) ==
    Iteration(ev[2] /\ versionGreaterThan(ev[1], threshold), <<>>)

RuleIteration_mk(bc, ua) ==
    IF bc.Regex # <<>> THEN RegexIteration_mk(bc, ua, Compile(bc.Regex))
    ELSE IF bc.Version # <<>> /\ HasPrefix(bc.Version, <<">">>)
    THEN VersionIteration_mk(TrimPrefix(bc.Version, <<">">>),
                             extractBrowserVersion(ua, bc.Name))
    ELSE Iteration(FALSE, <<>>)

BrowserIteration_mk(f, k, ua) == RuleIteration_mk(allowedBrowsers(f)[k], ua)

BrowserIteration(f, k, ua) ==
    CASE filters[f].b.kind = "bu"   -> BrowserIteration_bu(f, k, ua)
      [] filters[f].b.kind = "main" -> BrowserIteration_main(f, k, ua)
      [] filters[f].b.kind = "mk"   -> BrowserIteration_mk(f, k, ua)

\* The loop cursor kept in one place for all calls instead of per call.
LoopStart_shared(r) == SetMax({req[q].i : q \in Slots})

\* Where a call's browser loop starts: `for _, re := range` has its own cursor.
LoopStart(r) == 1

\* The OS loop left after its first pattern whatever the result.
OSLoopEnds_firstOnly(match, j, n) == TRUE

\* The OS loop leaves on a match (break) or after the last pattern.
OSLoopEnds(match, j, n) == match \/ j >= n

\* The OS result ignored.
AfterOSLoop_alwaysForward(rq) == Forward(rq)

\* After the OS loop: if !osMatch { reject }; b.next.ServeHTTP(res, req)
AfterOSLoop(rq) ==
    IF ~rq.osMatch THEN Reject(rq, "Unsupported OS") ELSE Forward(rq)

\* The OS check made first, whatever the browser loop found.
AfterBrowserLoop_osFirst(rq) ==
    IF Len(filters[rq.f].b.osRegexpsAllow) > 0
    THEN [rq EXCEPT !.pc = "os", !.j = 1, !.osMatch = FALSE]
    ELSE IF ~rq.browserMatch THEN Reject(rq, "Unsupported Browser")
    ELSE Forward(rq)

\* After the browser loop: if !browserMatch { reject }; the OS check runs only
\* if len(b.osRegexpsAllow) > 0.
AfterBrowserLoop(rq) ==
    IF ~rq.browserMatch THEN Reject(rq, "Unsupported Browser")
    ELSE IF Len(filters[rq.f].b.osRegexpsAllow) > 0
         THEN [rq EXCEPT !.pc = "os", !.j = 1, !.osMatch = FALSE]
         ELSE Forward(rq)

\* The backing array of a slice that holds bs, referenced by its Config.
Allocated(bs) == [array |-> bs, aliased |-> TRUE, writes |-> 0]

Init ==
    /\ variant \in Variants
    /\ \E c \in Configs :
         \E os \in Reorderings(c.AllowedOSTypes) :
            config = [f \in Filters |->
                        IF f = 1 THEN c ELSE Config(c.AllowedBrowsers, os)]
    /\ heap = [f \in Filters |-> Allocated(config[f].AllowedBrowsers)]
    /\ filters = [f \in Filters |-> NotBuilt]
    /\ req = [r \in Slots |-> IdleCall]

\* The host constructs filter f.
NewFilter(f) ==
    /\ filters[f] = NotBuilt
    /\ \A g \in Filters : g < f => filters[g] # NotBuilt
    /\ filters' = [filters EXCEPT ![f] = New(variant, config[f])]
    /\ UNCHANGED <<variant, config, heap, req>>

\* browserMatch := false; for _, re := range ... : the loop is entered, or is
\* over at once when there is nothing to range over.
EnterBrowserLoop(rq1) ==
    IF rq1.i > BrowserCount(rq1.f) THEN AfterBrowserLoop(rq1) ELSE rq1

\* The call from its first line up to the browser loop.
Entry(r, rq, rv) ==
    IF IsNil(rv) THEN BadRequest(rq)
    ELSE IF EmptyUserAgent(rv.ua) THEN Reject(rq, "No User-Agent")
    ELSE EnterBrowserLoop([rq EXCEPT !.pc = "browser", !.i = LoopStart(r),
                                     !.browserMatch = FALSE])

\* ServeHTTP up to the browser loop: the nil check and the User-Agent check.
ServeHTTP(r, f, rv) ==
    /\ req[r].pc = "idle"
    /\ r = 1 => f = 1
    /\ \A q \in Slots : q < r => req[q].pc # "idle" /\ RequestOf(req[q]) = rv
    /\ Built(f)
    /\ req' = [req EXCEPT ![r] =
                 Entry(r, [IdleCall EXCEPT !.f = f, !.nil = rv.nil, !.ua = rv.ua,
                                           !.marshalErr = rv.marshalErr], rv)]
    /\ UNCHANGED <<variant, config, heap, filters>>

\* The locals after a pass of the browser loop with result it.
AfterBrowserPass(rq, it) ==
    [rq EXCEPT !.iterations = @ + 1,
               !.log = @ \o it.log,
               !.browserMatch = IF it.match THEN TRUE ELSE @,
               !.i = @ + 1]

\* break on a match, leave after the last element, else go on.
BrowserLoopNext(rq1, match) ==
    IF match \/ rq1.i > BrowserCount(rq1.f) THEN AfterBrowserLoop(rq1) ELSE rq1

BrowserPass(rq, it) == BrowserLoopNext(AfterBrowserPass(rq, it), it.match)

\* One pass of the browser loop, and what follows the loop when it ends.
BrowserStep(r) ==
    /\ req[r].pc = "browser"
    /\ req' = [req EXCEPT ![r] =
                 BrowserPass(req[r], BrowserIteration(req[r].f, req[r].i, req[r].ua))]
    /\ UNCHANGED <<variant, config, heap, filters>>

\* The locals after a pass of the OS loop with result m.
AfterOSPass(rq, m) ==
    [rq EXCEPT !.iterations = @ + 1,
               !.osMatch = IF m THEN TRUE ELSE @,
               !.j = @ + 1]

OSPass(rq, n, m) ==
    IF OSLoopEnds(m, rq.j, n) THEN AfterOSLoop(AfterOSPass(rq, m)) ELSE AfterOSPass(rq, m)

\* One pass of the OS loop, and what follows the loop when it ends.
OSStep(r) ==
    /\ req[r].pc = "os"
    /\ req' = [req EXCEPT ![r] =
                 OSPass(req[r], Len(filters[req[r].f].b.osRegexpsAllow),
                        MatchString(filters[req[r].f].b.osRegexpsAllow[req[r].j],
                                    req[r].ua))]
    /\ UNCHANGED <<variant, config, heap, filters>>

Next ==
    \/ \E f \in Filters : NewFilter(f)
    \/ \E r \in Slots, f \in Filters, rv \in Requests : ServeHTTP(r, f, rv)
    \/ \E r \in Slots : BrowserStep(r)
    \/ \E r \in Slots : OSStep(r)

Spec == Init /\ [][Next]_vars

(***************************************************************************)
(* The host keeps the *Config it passed to New and writes to it later.     *)
(***************************************************************************)
\* The writes of the host so far.
RECURSIVE WritesUpTo(_)
WritesUpTo(f) == IF f = 0 THEN 0 ELSE heap[f].writes + WritesUpTo(f - 1)

Writes == WritesUpTo(Cardinality(Filters))

\* config.AllowedBrowsers[k] = bc: a store into the array the slice points at.
StoreElement(h, k, bc) ==
    [h EXCEPT !.array = IF h.aliased THEN [@ EXCEPT ![k] = bc] ELSE @,
              !.writes = @ + 1]

\* The host assigns element k of the AllowedBrowsers of filter f's Config.
SetBrowser(f, k, bc) ==
    /\ Built(f)
    /\ Writes < MaxMutations
    /\ k \in 1..Len(config[f].AllowedBrowsers)
    /\ config[f].AllowedBrowsers[k] # bc
    /\ config' = [config EXCEPT ![f].AllowedBrowsers[k] = bc]
    /\ heap' = [heap EXCEPT ![f] = StoreElement(@, k, bc)]
    /\ UNCHANGED <<variant, filters, req>>

\* append(s, bc) with n = len(s): with spare capacity the element is stored
\* at index n + 1 of the same array; without, the elements move to a new
\* array and the old one stays as it is.
AppendElement(h, n, bc, spare) ==
    [h EXCEPT !.array = IF h.aliased /\ spare THEN Append(SubSeq(@, 1, n), bc) ELSE @,
              !.aliased = @ /\ spare,
              !.writes = @ + 1]

\* config.AllowedBrowsers = append(config.AllowedBrowsers, bc); whether the
\* slice has spare capacity depends on how the host built it.
AppendBrowser(f, bc, spare) ==
    /\ Built(f)
    /\ Writes < MaxMutations
    /\ config' = [config EXCEPT ![f].AllowedBrowsers = Append(@, bc)]
    /\ heap' = [heap EXCEPT ![f] = AppendElement(@, Len(config[f].AllowedBrowsers), bc, spare)]
    /\ UNCHANGED <<variant, filters, req>>

\* The rules the host writes.
MutationRules == {ChromeRegexRule, FirefoxGreaterRule}

Mutate ==
    \/ \E f \in Filters, k \in 1..MaxBrowsers, bc \in MutationRules : SetBrowser(f, k, bc)
    \/ \E f \in Filters, bc \in MutationRules, spare \in BOOLEAN : AppendBrowser(f, bc, spare)

NextMutable == Next \/ Mutate

\* The configurations of the behaviours with a writing host: both filters
\* get equal Config values (each its own), with at most one OS pattern.
InitMutable ==
    /\ Init
    /\ config[1] = config[2]
    /\ config[1].AllowedOSTypes \in {<<>>, <<OSAndroid>>}

SpecMutable == InitMutable /\ [][NextMutable]_vars

(***************************************************************************)
(* Vocabulary of the properties.                                           *)
(***************************************************************************)
Done(r) == req[r].pc = "done"

Attempted(f) == filters[f] # NotBuilt

\* The reasons of the "Blocked" lines a call logged, in order.
RECURSIVE BlockedReasons(_)
BlockedReasons(log) ==
    IF log = <<>> THEN <<>>
    ELSE (IF Head(log).kind = "Blocked" THEN <<Head(log).reason>> ELSE <<>>)
             \o BlockedReasons(Tail(log))

\* What the client, the next handler and the log saw of a call.
Outcome(rq) ==
    [status |-> rq.status, nextCalls |-> rq.nextCalls, reasons |-> BlockedReasons(rq.log)]

Forwarded(rq) == rq.nextCalls = 1 /\ rq.status = <<>> /\ BlockedReasons(rq.log) = <<>>

Rejected(rq, reason) ==
    /\ rq.nextCalls = 0
    /\ rq.status = <<StatusForbidden>>
    /\ BlockedReasons(rq.log) = <<reason>>

SomeBrowserMatcherMatches(f, ua) ==
    \E k \in 1..BrowserCount(f) : BrowserIteration(f, k, ua).match

SomeOSPatternMatches(f, ua) ==
    \E k \in 1..Len(filters[f].b.osRegexpsAllow) :
        MatchString(filters[f].b.osRegexpsAllow[k], ua)

Contains(s, sub) ==
    \E k \in 1..(Len(s) - Len(sub) + 1) : SubSeq(s, k, k + Len(sub) - 1) = sub

VersionChars == DigitSet \cup {"."}

\* The version that follows the first `name/` of ua that a digit or a dot
\* follows: the longest run of digits and dots there; <<>> if there is none.
VersionAfter(ua, name) ==
    LET pre == name \o <<"/">>
        at  == {k \in 1..Len(ua) :
                  /\ k + Len(pre) <= Len(ua)
                  /\ SubSeq(ua, k, k + Len(pre) - 1) = pre
                  /\ ua[k + Len(pre)] \in VersionChars}
    IN IF at = {} THEN <<>>
       ELSE LET b0 == SetMin(at) + Len(pre)
                e  == SetMax({k \in b0..Len(ua) :
                                \A m \in b0..k : ua[m] \in VersionChars})
            IN SubSeq(ua, b0, e)

\* Component k of a dotted version, 0 beyond its last component.
Component(v, k) ==
    LET parts == Split(v, ".") IN
    IF k <= Len(parts) THEN Atoi(parts[k]).val ELSE 0

WellFormedVersion(v) ==
    LET parts == Split(v, ".") IN \A k \in 1..Len(parts) : ~Atoi(parts[k]).err

\* v exceeds t: at the first component where they differ, v's is the larger.
NumericallyGreater(v, t) ==
    LET n == IF Len(Split(v, ".")) > Len(Split(t, ".")) THEN Len(Split(v, "."))
             ELSE Len(Split(t, "."))
    IN \E k \in 1..n :
          /\ Component(v, k) > Component(t, k)
          /\ \A m \in 1..(k - 1) : Component(v, m) = Component(t, m)

\* Every rule of filter f's configuration is the rule bc, and no OS pattern is
\* configured: what f decides is what bc decides.
OnlyRule(f, bc) ==
    /\ Len(config[f].AllowedBrowsers) > 0
    /\ \A k \in 1..Len(config[f].AllowedBrowsers) : config[f].AllowedBrowsers[k] = bc
    /\ config[f].AllowedOSTypes = <<>>

InvalidPattern(p) == Compile(p).err

(***************************************************************************)
(* C1.  For every constructed filter and every non-nil request, ServeHTTP  *)
(* calls the next handler, once and without writing a status, exactly when *)
(* the User-Agent is non-empty, some browser matcher of the filter matches *)
(* it and the OS list is empty or some OS pattern matches it; otherwise it *)
(* writes 403 and never calls the next handler.                            *)
(***************************************************************************)
C1_ShouldForward(rq) ==
    /\ rq.ua # <<>>
    /\ SomeBrowserMatcherMatches(rq.f, rq.ua)
    /\ \/ Len(filters[rq.f].b.osRegexpsAllow) = 0
       \/ SomeOSPatternMatches(rq.f, rq.ua)

C1_ForwardIffAllowed ==
    \A r \in Slots :
        /\ (req[r].pc \in {"browser", "os"}) =>
               req[r].nextCalls = 0 /\ req[r].status = <<>>
        /\ (Done(r) /\ ~req[r].nil) =>
               IF C1_ShouldForward(req[r])
               THEN req[r].nextCalls = 1 /\ req[r].status = <<>>
               ELSE req[r].nextCalls = 0 /\ req[r].status = <<StatusForbidden>>

\* A call forwarded by a filter with two OS patterns, the second of which matched.
C1_Witness ==
    \E r \in Slots :
        /\ Done(r) /\ Forwarded(req[r])
        /\ Len(filters[req[r].f].b.osRegexpsAllow) = 2
        /\ req[r].j = 3

(***************************************************************************)
(* C2.  Whenever allowedBrowsers is empty, New returns an error and no     *)
(* filter.                                                                 *)
(***************************************************************************)
C2_EmptyBrowsersRejected ==
    \A f \in Filters :
        (Attempted(f) /\ Len(config[f].AllowedBrowsers) = 0) =>
            filters[f].err # NoError /\ filters[f].b = NoFilter

(***************************************************************************)
(* C3.  Whenever some browser rule has neither a regex nor a version, New  *)
(* fails, and when that rule is the only one the error names it; a         *)
(* configuration whose rules carry only a version is accepted.             *)
(***************************************************************************)
C3_Inert(bc) == bc.Regex = <<>> /\ bc.Version = <<>>

C3_VersionOnly(bc) == bc.Regex = <<>> /\ bc.Version # <<>>

C3_InertRuleRejected ==
    \A f \in Filters :
        LET bcs == config[f].AllowedBrowsers IN
        /\ (Attempted(f) /\ \E k \in 1..Len(bcs) : C3_Inert(bcs[k])) =>
               /\ filters[f].err # NoError
               /\ filters[f].b = NoFilter
               /\ (\A k \in 1..Len(bcs) : C3_Inert(bcs[k])) =>
                      filters[f].err.name = bcs[1].Name
        /\ ( /\ Attempted(f)
             /\ Len(bcs) > 0
             /\ \A k \in 1..Len(bcs) : C3_VersionOnly(bcs[k])
             /\ \A k \in 1..Len(config[f].AllowedOSTypes) :
                    ~InvalidPattern(config[f].AllowedOSTypes[k]) ) =>
               filters[f].err = NoError

(***************************************************************************)
(* C4.  Whenever an explicit browser regex or an OS pattern is not a valid *)
(* regular expression, New returns an error and no filter, so that no      *)
(* constructed filter holds an invalid pattern.                            *)
(***************************************************************************)
C4_HasInvalidPattern(cfg) ==
    \/ \E k \in 1..Len(cfg.AllowedBrowsers) :
          /\ cfg.AllowedBrowsers[k].Regex # <<>>
          /\ InvalidPattern(cfg.AllowedBrowsers[k].Regex)
    \/ \E k \in 1..Len(cfg.AllowedOSTypes) : InvalidPattern(cfg.AllowedOSTypes[k])

C4_InvalidPatternRejected ==
    \A f \in Filters :
        (Attempted(f) /\ C4_HasInvalidPattern(config[f])) =>
            filters[f].err # NoError /\ filters[f].b = NoFilter

(***************************************************************************)
(* C5.  A non-nil request with an empty User-Agent is rejected with 403    *)
(* and the reason "No User-Agent"; no pass of the browser or OS loop runs  *)
(* and the next handler is not called.                                     *)
(***************************************************************************)
C5_NoUserAgentRejected ==
    \A r \in Slots :
        (req[r].pc # "idle" /\ ~req[r].nil /\ req[r].ua = <<>>) =>
            /\ Done(r)
            /\ Rejected(req[r], "No User-Agent")
            /\ req[r].iterations = 0

\* An empty User-Agent met a filter that has browser matchers and OS patterns.
C5_Witness ==
    \E r \in Slots :
        /\ Done(r) /\ ~req[r].nil /\ req[r].ua = <<>>
        /\ BrowserCount(req[r].f) = 2
        /\ Len(filters[req[r].f].b.osRegexpsAllow) = 2

(***************************************************************************)
(* C6.  A rule without regex whose version is `>T` accepts a User-Agent    *)
(* that contains `Name/V` exactly when V is numerically greater than T,    *)
(* component by component, the shorter version padded with zeros.          *)
(***************************************************************************)
C6_GreaterRule(bc) == bc.Regex = <<>> /\ HasPrefix(bc.Version, <<">">>)

C6_GreaterThanThreshold ==
    \A r \in Slots :
        \A bc \in BrowserRules :
            LET v == VersionAfter(req[r].ua, bc.Name) IN
            ( /\ Done(r) /\ ~req[r].nil
              /\ C6_GreaterRule(bc)
              /\ OnlyRule(req[r].f, bc)
              /\ v # <<>> /\ WellFormedVersion(v) ) =>
                (Forwarded(req[r])
                    <=> NumericallyGreater(v, TrimPrefix(bc.Version, <<">">>)))

(***************************************************************************)
(* C7.  A rule without regex whose version T does not start with `>`       *)
(* accepts exactly the User-Agents that contain `Name/T`.                  *)
(***************************************************************************)
C7_ExactRule(bc) ==
    bc.Regex = <<>> /\ bc.Version # <<>> /\ ~HasPrefix(bc.Version, <<">">>)

C7_ExactPrefixMatch ==
    \A r \in Slots :
        \A bc \in BrowserRules :
            ( /\ Done(r) /\ ~req[r].nil /\ req[r].ua # <<>>
              /\ C7_ExactRule(bc)
              /\ OnlyRule(req[r].f, bc) ) =>
                (Forwarded(req[r])
                    <=> Contains(req[r].ua, bc.Name \o <<"/">> \o bc.Version))

(***************************************************************************)
(* C8.  A nil request gets status 400 and nothing else: no pass of a loop, *)
(* no "Blocked" log line, no call of the next handler.                     *)
(***************************************************************************)
C8_NilRequestIsBadRequest ==
    \A r \in Slots :
        (req[r].pc # "idle" /\ req[r].nil) =>
            /\ Done(r)
            /\ req[r].status = <<StatusBadRequest>>
            /\ req[r].iterations = 0
            /\ req[r].log = <<>>
            /\ req[r].nextCalls = 0

\* A nil request met a filter that has browser matchers and OS patterns.
C8_Witness ==
    \E r \in Slots :
        /\ Done(r) /\ req[r].nil
        /\ BrowserCount(req[r].f) = 2
        /\ Len(filters[req[r].f].b.osRegexpsAllow) = 2

(***************************************************************************)
(* C9.  Two filters whose configurations differ only in the order of       *)
(* allowedOSTypes give every User-Agent the same outcome: the same         *)
(* forward/reject decision and the same rejection reason.                  *)
(***************************************************************************)
C9_OSOrderIrrelevant ==
    \A r1, r2 \in Slots :
        ( /\ Done(r1) /\ Done(r2)
          /\ req[r1].f # req[r2].f
          /\ RequestOf(req[r1]) = RequestOf(req[r2]) ) =>
            Outcome(req[r1]) = Outcome(req[r2])

\* The same User-Agent was forwarded by a filter and by its twin with the two
\* OS patterns swapped; one found the match first, the other second.
C9_Witness ==
    /\ config[1].AllowedOSTypes # config[2].AllowedOSTypes
    /\ Done(1) /\ Done(2)
    /\ req[1].f # req[2].f
    /\ Forwarded(req[1]) /\ Forwarded(req[2])
    /\ req[1].j # req[2].j

(***************************************************************************)
(* C10.  On one filter, two calls with the same User-Agent have the same   *)
(* outcome, however the two calls are ordered or interleaved.              *)
(***************************************************************************)
C10_SameUserAgentSameOutcome ==
    \A r1, r2 \in Slots :
        ( /\ Done(r1) /\ Done(r2)
          /\ req[r1].f = req[r2].f
          /\ RequestOf(req[r1]) = RequestOf(req[r2]) ) =>
            Outcome(req[r1]) = Outcome(req[r2])

\* Two calls on filter 1 with one User-Agent, both forwarded after the browser
\* loop matched on its second rule and the OS loop on its second pattern.
C10_Witness ==
    /\ Done(1) /\ Done(2)
    /\ req[1].f = req[2].f
    /\ Forwarded(req[1]) /\ Forwarded(req[2])
    /\ req[1].i = 3 /\ req[1].j = 3


(***************************************************************************)
(* C11.  The matchers of a filter are fixed when New returns: neither a    *)
(* ServeHTTP call nor a later write of the host to the Config it passed to *)
(* New (an element assigned, an element appended) changes them, so any two *)
(* completed calls on one filter with one User-Agent get the same verdict, *)
(* whatever the host wrote to the Config before, between or during them.   *)
(* Checked under SpecMutable, where the host writes to the Config.         *)
(***************************************************************************)
C11_VerdictFixedForLifetime ==
    \A r1 \in Slots, r2 \in Slots :
        ( /\ Done(r1) /\ Done(r2)
          /\ req[r1].f = req[r2].f
          /\ ~req[r1].nil /\ ~req[r2].nil
          /\ req[r1].ua = req[r2].ua ) =>
        /\ req[r1].status = req[r2].status
        /\ req[r1].nextCalls = req[r2].nextCalls
        /\ BlockedReasons(req[r1].log) = BlockedReasons(req[r2].log)


\* How many OS patterns a call has matched against its User-Agent.
OSPatternsConsulted(rq) == rq.j - 1

(***************************************************************************)
(* C12.  Rejection reasons follow a strict precedence.  A call with a      *)
(* non-empty User-Agent that no browser matcher matches ends rejected with *)
(* "Unsupported Browser", whether or not an OS pattern matches, and no OS  *)
(* pattern is ever consulted for it; a call is rejected with "Unsupported  *)
(* OS" only if some browser matcher matched, the OS list is non-empty and  *)
(* no OS pattern matches.                                                  *)
(***************************************************************************)
C12_ReasonPrecedence ==
    \A r \in Slots :
        /\ req[r].pc = "os" => req[r].browserMatch
        /\ ~req[r].browserMatch => OSPatternsConsulted(req[r]) = 0
        /\ (Done(r) /\ ~req[r].nil /\ req[r].ua # <<>>) =>
              /\ ~SomeBrowserMatcherMatches(req[r].f, req[r].ua) =>
                    Rejected(req[r], "Unsupported Browser")
              /\ BlockedReasons(req[r].log) = <<"Unsupported OS">> =>
                    /\ SomeBrowserMatcherMatches(req[r].f, req[r].ua)
                    /\ Len(filters[req[r].f].b.osRegexpsAllow) > 0
                    /\ ~SomeOSPatternMatches(req[r].f, req[r].ua)

\* A call whose User-Agent no browser matcher matches while an OS pattern
\* does: rejected for the browser, no OS pattern consulted.
C12_Witness ==
    \E r \in Slots :
        /\ Done(r) /\ ~req[r].nil /\ req[r].ua # <<>>
        /\ ~SomeBrowserMatcherMatches(req[r].f, req[r].ua)
        /\ SomeOSPatternMatches(req[r].f, req[r].ua)
        /\ Rejected(req[r], "Unsupported Browser")
        /\ OSPatternsConsulted(req[r]) = 0


\* The "Blocked" lines of a log, in order.
BlockedLines(log) == SelectSeq(log, LAMBDA line : line.kind = "Blocked")

\* The reason ServeHTTP has to reject a call with, "" if it has none.
RejectionReason(rq) ==
    IF rq.ua = <<>> THEN "No User-Agent"
    ELSE IF ~SomeBrowserMatcherMatches(rq.f, rq.ua) THEN "Unsupported Browser"
    ELSE IF /\ Len(filters[rq.f].b.osRegexpsAllow) > 0
            /\ ~SomeOSPatternMatches(rq.f, rq.ua) THEN "Unsupported OS"
    ELSE ""

(***************************************************************************)
(* C13.  Every policy rejection (no User-Agent, unsupported browser,       *)
(* unsupported OS) emits exactly one "Blocked" log line, which carries the *)
(* rejection reason and the User-Agent and is emitted before the 403 is    *)
(* written; this also holds when json.Marshal fails, where the line is the *)
(* plain-text one.  A forwarded request emits no "Blocked" line.           *)
(***************************************************************************)
C13_OneBlockedLinePerRejection ==
    \A r \in Slots :
        (Done(r) /\ ~req[r].nil) =>
            IF RejectionReason(req[r]) = ""
            THEN /\ req[r].nextCalls = 1
                 /\ BlockedLines(req[r].log) = <<>>
            ELSE /\ req[r].status = <<StatusForbidden>>
                 /\ BlockedLines(req[r].log) =
                       <<LogLine("Blocked", RejectionReason(req[r]), req[r].ua,
                                 IF req[r].marshalErr THEN "text" ELSE "json",
                                 <<>>)>>

\* A rejected call whose message json.Marshal refused: one plain-text line.
C13_Witness ==
    \E r \in Slots :
        /\ Done(r) /\ ~req[r].nil /\ req[r].marshalErr
        /\ RejectionReason(req[r]) = "Unsupported OS"
        /\ req[r].status = <<StatusForbidden>>
        /\ Len(BlockedLines(req[r].log)) = 1
        /\ BlockedLines(req[r].log)[1].format = "text"
        /\ BlockedLines(req[r].log)[1].reason = "Unsupported OS"

=============================================================================
